---------------------------- MODULE Spec2Model ----------------------------
(***************************************************************************)
(* Model of the Spotify category extract / transform / load pipeline:      *)
(*   src/python/spotify.py          gateway client and the three traversals *)
(*   src/python/table_generator.py  the six table builders                 *)
(*   src/python/main.py             extract, transform, load, main         *)
(*                                                                         *)
(* Python values are modelled as follows.  A dict is a record; d.get(k) is *)
(* None exactly when k is not in DOMAIN d.  A Python int n is [int |-> n]  *)
(* and a Python str s is [str |-> s], so that the two never compare equal. *)
(* A JSON null cursor is Null; a cursor URL is [query |-> pairs] where     *)
(* pairs is its query string as a sequence of <<key, value>> pairs.        *)
(***************************************************************************)
EXTENDS Integers, Sequences, FiniteSets, TLC

VARIABLES
    pc,                   \* position of the run (which loop of which function)
    limit, offset,        \* locals of the traversal that is running
    requests,             \* HTTP requests put on the wire, in order
    responses,            \* get_all_category_simplified_playlists: responses
    simplified_playlists, \* extract: flattened listing
    playlist_responses,   \* get_all_playlists: responses
    playlists,            \* extract: the detailed playlists (mutated by backfill)
    i,                    \* index of the for loop that is running
    tracks_next,          \* populate_all_tracks_in_playlists: local cursor
    track_pages,          \* history: the track pages received, each with the
                          \* index of the playlist it was fetched for
    errlog,               \* logger.error records, in order
    items_normalized,     \* TableGenerator cache
    artists_normalized,   \* TableGenerator cache
    table_dfs,            \* transform: tables built so far, in order
    stored,               \* names of the tables written by load, in order
    limiter               \* state of the rate limiter and of the retry loop

vars == <<pc, limit, offset, requests, responses, simplified_playlists,
          playlist_responses, playlists, i, tracks_next, track_pages, errlog,
          items_normalized, artists_normalized, table_dfs, stored, limiter>>

(***************************************************************************)
(* Bounds of the model.                                                    *)
(***************************************************************************)
MaxListPages == 3     \* pages the listing endpoint serves before next is null
MaxPageItems == 1     \* entries on one listing page
MaxTrackPages == 2    \* further track pages the server serves for one playlist
MaxPlaylists == 2     \* playlists handed to the detail fetch
MaxOccurrences == 3   \* track occurrences, over all playlists, handed to transform
MaxRunPages == 1      \* listing pages of a whole run
MaxRetries == 5       \* attempts of one gateway call that the model follows

(***************************************************************************)
(* Python values.                                                          *)
(***************************************************************************)
PyInt(n) == [int |-> n]
PyStr(s) == [str |-> s]
IsInt(x) == "int" \in DOMAIN x
Null == [null |-> TRUE]
IsNull(x) == "null" \in DOMAIN x
None == [none |-> TRUE]

Digit(d) ==
    CASE d = 0 -> "0" [] d = 1 -> "1" [] d = 2 -> "2" [] d = 3 -> "3"
      [] d = 4 -> "4" [] d = 5 -> "5" [] d = 6 -> "6" [] d = 7 -> "7"
      [] d = 8 -> "8" [] OTHER -> "9"

RECURSIVE IntToStr(_)
IntToStr(n) == IF n < 10 THEN Digit(n) ELSE IntToStr(n \div 10) \o Digit(n % 10)

\* requests serialises a params value into the query string: str(value)
WireValue(x) == IF IsInt(x) THEN IntToStr(x.int) ELSE x.str

RECURSIVE SeqsUpTo(_, _)
SeqsUpTo(S, n) ==
    IF n = 0 THEN {<<>>}
    ELSE LET shorter == SeqsUpTo(S, n - 1)
         IN  shorter \cup {Append(s, x) : s \in {t \in shorter : Len(t) = n - 1}, x \in S}

RECURSIVE Flatten(_)
Flatten(ss) == IF ss = <<>> THEN <<>> ELSE Head(ss) \o Flatten(Tail(ss))

(***************************************************************************)
(* What the server can send.                                               *)
(***************************************************************************)
PlaylistIds == {"A", "B"}

\* cursor URLs: the query string of the `next` link
NextUrls ==
    { [query |-> << <<"offset", "50">>, <<"limit", "50">> >>],
      [query |-> << <<"country", "GB">>, <<"limit", "20">>, <<"offset", "70">> >>] }

\* a description is its characters, of which "\n" is the newline
SimplifiedPlaylistOf(id, description) ==
    [id |-> id, description |-> description, name |-> "n", snapshot_id |-> "s",
     tracks |-> [href |-> "h", total |-> 1]]

SimplifiedPlaylist(id) ==
    SimplifiedPlaylistOf(id, IF id = "A" THEN <<"a", "\n", "b">> ELSE <<"a">>)

\* a response is its status code and its JSON body
Response(status, body) == [status |-> status, body |-> body]

\* Spotify's error object, the body of a non-success response
ErrorResponse(st) ==
    Response(st, [error |-> [status |-> st, message |-> "m"]])

ErrorStatuses == {404}

ListingOk(items, next) ==
    Response(200, [playlists |-> [items |-> items, next |-> next]])

ListingResponses(last) ==
    { ListingOk(its, nx) :
        its \in SeqsUpTo({SimplifiedPlaylist(id) : id \in PlaylistIds}, MaxPageItems),
        nx \in IF last THEN {Null} ELSE {Null} \cup NextUrls }
    \cup {ErrorResponse(st) : st \in ErrorStatuses}

\* a TrackOccurrence of a playlist's track list
Occurrence(added_at, id, name, popularity, uri, album_type, artists) ==
    [added_at |-> added_at,
     track |-> [id |-> id, name |-> name, popularity |-> popularity, uri |-> uri,
                album |-> [album_type |-> album_type], artists |-> artists]]

ArtistRef(id, name) == [id |-> id, name |-> name]

O1 == Occurrence("d1", "T1", "n1", 10, "u1", "album", <<ArtistRef("AR1", "X")>>)
O2 == Occurrence("d2", "T2", "n2", 20, "u2", "single",
                 <<ArtistRef("AR1", "X"), ArtistRef("AR2", "Y")>>)

\* the items of one page of tracks
TrackPageItems == {<<>>, <<O1>>, <<O2, O1>>}

TrackUrls ==
    { [query |-> << <<"offset", "100">>, <<"limit", "100">> >>] }

Playlist(id, followers, items, next) ==
    [id |-> id, followers |-> [total |-> followers],
     tracks |-> [items |-> items, next |-> next]]

\* the body of GET playlists/{id}
PlaylistResponses(id) ==
    { Response(200, Playlist(id, f, its, nx)) :
        f \in {7}, its \in TrackPageItems, nx \in {Null} \cup TrackUrls }
    \cup {ErrorResponse(st) : st \in ErrorStatuses}

\* the body of GET playlists/{id}/tracks
TrackPageResponses(last) ==
    { Response(200, [items |-> its, next |-> nx]) :
        its \in TrackPageItems,
        nx \in IF last THEN {Null} ELSE {Null} \cup TrackUrls }
    \cup {ErrorResponse(st) : st \in ErrorStatuses}

(***************************************************************************)
(* spotify.py                                                              *)
(***************************************************************************)
\* parse_qs: the values of `key`, in order of appearance
QueryValues(query, key) ==
    LET idx == {k \in 1..Len(query) : query[k][1] = key}
    IN  [n \in 1..Cardinality(idx) |->
            query[CHOOSE k \in idx : Cardinality({j \in idx : j <= k}) = n][2]]

get_offset_limit_from_url(url) ==
    <<PyStr(QueryValues(url.query, "offset")[1]),
      PyStr(QueryValues(url.query, "limit")[1])>>

get_limit_offset_from_url(url) ==
    <<PyStr(QueryValues(url.query, "limit")[1]),
      PyStr(QueryValues(url.query, "offset")[1])>>

RequestForFirstPlaylist(op, id, lim, off) ==
    [op |-> op, id |-> playlists[1].id, limit |-> lim, offset |-> off]

\* the request as it goes on the wire; requests drops params that are None
Request(op, id, lim, off) ==
    [op |-> op, id |-> id, limit |-> lim, offset |-> off]

Absent == "absent"

\* logger.error of the status check that follows requests.get
LogsError(op) == op \in {"get_category_playlists", "get_playlist"}

GatewayLog(op, response) ==
    IF LogsError(op) /\ response.status # 200
    THEN <<[op |-> op, status |-> response.status,
            message |-> response.body.error.message]>>
    ELSE <<>>

get_simplified_playlists_from_responses(rs) ==
    Flatten([k \in 1..Len(rs) |-> rs[k].body.playlists.items])

CategoryId == "latin"

\* one iteration of the while loop of get_all_category_simplified_playlists
get_category_page(Responses) ==
    /\ pc = "listing"
    /\ \E response \in Responses :
        /\ requests' = Append(requests,
               Request("get_category_playlists", CategoryId,
                       WireValue(limit), WireValue(offset)))
        /\ errlog' = errlog \o GatewayLog("get_category_playlists", response)
        /\ responses' = Append(responses, response)
        /\ IF "playlists" \notin DOMAIN response.body
           THEN \* playlists is None: AttributeError on playlists.get
                /\ pc' = "failed"
                /\ UNCHANGED <<limit, offset, simplified_playlists, i>>
           ELSE IF IsNull(response.body.playlists.next)
           THEN \* last_page: the loop exits, extract flattens the responses
                /\ simplified_playlists' =
                       get_simplified_playlists_from_responses(responses')
                /\ pc' = "detail"
                /\ i' = 1
                /\ UNCHANGED <<limit, offset>>
           ELSE /\ limit' = get_limit_offset_from_url(response.body.playlists.next)[1]
                /\ offset' = get_limit_offset_from_url(response.body.playlists.next)[2]
                /\ UNCHANGED <<pc, simplified_playlists, i>>
    /\ UNCHANGED <<playlist_responses, playlists, tracks_next, track_pages,
                   items_normalized,
                   artists_normalized, table_dfs, stored, limiter>>

\* responses.append(response), whatever the status of the response
CollectOkResponse(rs, response) ==
    IF response.status = 200 THEN Append(rs, response) ELSE rs

CollectResponse(rs, response) == Append(rs, response)

\* one iteration of the for loop of get_all_playlists
get_playlist_step(Responses) ==
    /\ pc = "detail"
    /\ i <= Len(simplified_playlists)
    /\ LET playlist_id == simplified_playlists[i].id
       IN  \E response \in Responses[playlist_id] :
            /\ requests' = Append(requests,
                   Request("get_playlist", playlist_id, Absent, Absent))
            /\ errlog' = errlog \o GatewayLog("get_playlist", response)
            /\ playlist_responses' = CollectResponse(playlist_responses, response)
    /\ i' = i + 1
    /\ UNCHANGED <<pc, limit, offset, responses, simplified_playlists, playlists,
                   tracks_next, track_pages, items_normalized, artists_normalized,
                   table_dfs, stored, limiter>>

\* get_all_playlists returns; extract takes response.json() of each response
get_all_playlists_return ==
    /\ pc = "detail"
    /\ i > Len(simplified_playlists)
    /\ playlists' = [k \in 1..Len(playlist_responses) |-> playlist_responses[k].body]
    /\ pc' = "populate"
    /\ i' = 1
    /\ UNCHANGED <<limit, offset, requests, responses, simplified_playlists,
                   playlist_responses, tracks_next, track_pages, errlog,
                   items_normalized,
                   artists_normalized, table_dfs, stored, limiter>>

\* head of the for loop of populate_all_tracks_in_playlists: read tracks.next
populate_playlist ==
    /\ pc = "populate"
    /\ i <= Len(playlists)
    /\ IF "tracks" \notin DOMAIN playlists[i]
       THEN \* playlist.get('tracks') is None: AttributeError
            /\ pc' = "failed"
            /\ UNCHANGED <<i, tracks_next>>
       ELSE IF IsNull(playlists[i].tracks.next)
       THEN /\ i' = i + 1
            /\ UNCHANGED <<pc, tracks_next>>
       ELSE /\ tracks_next' = playlists[i].tracks.next
            /\ pc' = "populate_page"
            /\ UNCHANGED i
    /\ UNCHANGED <<limit, offset, requests, responses, simplified_playlists,
                   playlist_responses, playlists, track_pages, errlog,
                   items_normalized, artists_normalized, table_dfs, stored, limiter>>

ReplaceItems(playlist, tracks_items) ==
    [playlist EXCEPT !.tracks.items = tracks_items]

ExtendItemsAndClearNext(playlist, tracks_items) ==
    [playlist EXCEPT !.tracks.items = @ \o tracks_items, !.tracks.next = Null]

\* playlist['tracks']['items'] += tracks_items
ExtendItems(playlist, tracks_items) ==
    [playlist EXCEPT !.tracks.items = @ \o tracks_items]

\* one iteration of the while loop of populate_all_tracks_in_playlists
populate_page(Responses) ==
    /\ pc = "populate_page"
    /\ limit' = get_limit_offset_from_url(tracks_next)[1]
    /\ offset' = get_limit_offset_from_url(tracks_next)[2]
    /\ \E response \in Responses :
        /\ requests' = Append(requests,
               Request("get_playlist_items", playlists[i].id,
                       WireValue(limit'), WireValue(offset')))
        /\ errlog' = errlog \o GatewayLog("get_playlist_items", response)
        /\ track_pages' = Append(track_pages, [index |-> i, response |-> response])
        /\ IF "items" \notin DOMAIN response.body
           THEN \* tracks_items is None: TypeError on list += None
                /\ pc' = "failed"
                /\ UNCHANGED <<playlists, tracks_next, i>>
           ELSE /\ playlists' =
                       [playlists EXCEPT ![i] = ExtendItems(@, response.body.items)]
                /\ tracks_next' = response.body.next
                /\ IF IsNull(response.body.next)
                   THEN pc' = "populate" /\ i' = i + 1
                   ELSE UNCHANGED <<pc, i>>
    /\ UNCHANGED <<responses, simplified_playlists, playlist_responses,
                   items_normalized, artists_normalized, table_dfs, stored, limiter>>

\* populate_all_tracks_in_playlists returns; extract returns
populate_return ==
    /\ pc = "populate"
    /\ i > Len(playlists)
    /\ pc' = "transform"
    /\ i' = 1
    /\ UNCHANGED <<limit, offset, requests, responses, simplified_playlists,
                   playlist_responses, playlists, tracks_next, track_pages, errlog,
                   items_normalized, artists_normalized, table_dfs, stored, limiter>>

(***************************************************************************)
(* The decorators of the three client methods:                             *)
(*     @on_exception(expo, RateLimitException)                             *)
(*     @limits(calls=100, period=30)                                       *)
(* Each method has a limiter of its own.  `limiter` is the limiter of the  *)
(* method limiter.op together with the retry loop of the call in progress: *)
(*   num_calls, elapsed   attempts in the window, seconds since last_reset *)
(*   tries, wait          attempts of this call, seconds it sleeps next    *)
(*   phase                "idle", "backoff" (about to sleep and retry) or  *)
(*                        "raised" (RateLimitException left the call)      *)
(*   returned, logged     what the last call returned and logged           *)
(* Time is counted in whole seconds, and no further than the period.       *)
(***************************************************************************)
calls == 100
period == 30

ClientMethods == {"get_category_playlists", "get_playlist", "get_playlist_items"}

NotCalled(op) ==
    [op |-> op, num_calls |-> 0, elapsed |-> 0, tries |-> 0, wait |-> 0,
     phase |-> "idle", returned |-> <<>>, logged |-> <<>>]

Later(elapsed, seconds) ==
    IF elapsed + seconds > period THEN period ELSE elapsed + seconds

max_tries_three == PyInt(3)

\* on_exception is given no max_tries: it defaults to None
max_tries == None

\* backoff: max_tries_exceeded = (tries == max_tries)
max_tries_exceeded(tries) == PyInt(tries) = max_tries

\* backoff.expo, base 2 and factor 1: the value for the wait after attempt n
expo(n) == 2 ^ (n - 1)

\* backoff.full_jitter: a wait between 0 and the value
Waits(n) == 0..expo(n)

\* one pass of the retry loop: the limiter counts the attempt and either
\* raises RateLimitException, which on_exception catches, or lets the method
\* send its request and return the response
Attempt(lim, response, seconds) ==
    LET reset == period - lim.elapsed <= 0
        num_calls == (IF reset THEN 0 ELSE lim.num_calls) + 1
        elapsed == IF reset THEN 0 ELSE lim.elapsed
        tries == lim.tries + 1
        counted == [lim EXCEPT !.num_calls = num_calls, !.elapsed = elapsed,
                               !.tries = tries, !.wait = 0]
    IN  IF num_calls > calls
        THEN IF max_tries_exceeded(tries)
             THEN [counted EXCEPT !.phase = "raised"]
             ELSE [counted EXCEPT !.phase = "backoff", !.wait = seconds]
        ELSE [counted EXCEPT !.phase = "idle", !.returned = <<response>>,
                             !.logged = GatewayLog(lim.op, response)]

GatewayResponses == {Response(200, [ok |-> TRUE])}
                    \cup {ErrorResponse(st) : st \in ErrorStatuses}

LimiterOnly ==
    UNCHANGED <<pc, limit, offset, requests, responses, simplified_playlists,
                playlist_responses, playlists, i, tracks_next, track_pages, errlog,
                items_normalized, artists_normalized, table_dfs, stored>>

\* the pipeline calls the method: the first attempt of a call
gateway_call ==
    /\ limiter.phase = "idle"
    /\ \E response \in GatewayResponses : \E seconds \in Waits(1) :
        limiter' = Attempt([limiter EXCEPT !.tries = 0, !.returned = <<>>,
                                           !.logged = <<>>],
                           response, seconds)
    /\ LimiterOnly

\* time.sleep(seconds), then the next attempt of the same call
gateway_retry ==
    /\ limiter.phase = "backoff"
    /\ limiter.tries < MaxRetries
    /\ \E response \in GatewayResponses : \E seconds \in Waits(limiter.tries + 1) :
        limiter' = Attempt([limiter EXCEPT !.elapsed = Later(@, limiter.wait)],
                           response, seconds)
    /\ LimiterOnly

\* a second goes by between two calls
clock_tick ==
    /\ limiter.phase = "idle"
    /\ limiter.elapsed < period
    /\ limiter' = [limiter EXCEPT !.elapsed = @ + 1]
    /\ LimiterOnly

(***************************************************************************)
(* table_generator.py.  A DataFrame is the sequence of its rows; a column  *)
(* that is the index is a field of the row like the others.  The unrolling *)
(* below is that of explode on lists that are not empty: the transform is  *)
(* modelled on playlists with at least one item and tracks with at least   *)
(* one artist.                                                             *)
(***************************************************************************)
\* one row of the Items-view: json_normalize of an item, plus playlist_id
ItemRow(playlist_id, item) ==
    [added_at |-> item.added_at,
     track_album_album_type |-> item.track.album.album_type,
     track_id |-> item.track.id,
     track_name |-> item.track.name,
     track_popularity |-> item.track.popularity,
     track_uri |-> item.track.uri,
     track_artists |-> item.track.artists,
     playlist_id |-> playlist_id]

get_items_normalized(playlists_df) ==
    Flatten([k \in 1..Len(playlists_df) |->
                [n \in 1..Len(playlists_df[k].tracks.items) |->
                    ItemRow(playlists_df[k].id, playlists_df[k].tracks.items[n])]])

get_artists_normalized(items) ==
    Flatten([k \in 1..Len(items) |->
                [n \in 1..Len(items[k].track_artists) |->
                    [id |-> items[k].track_artists[n].id,
                     name |-> items[k].track_artists[n].name,
                     track_id |-> items[k].track_id]]])

drop_duplicates_by_id(rows) ==
    LET keep == {k \in 1..Len(rows) : \A j \in 1..(k - 1) : rows[j].id # rows[k].id}
    IN  [n \in 1..Cardinality(keep) |->
            rows[CHOOSE k \in keep : Cardinality({j \in keep : j <= k}) = n]]

\* DataFrame.drop_duplicates: keep the first of the rows that are equal
drop_duplicates(rows) ==
    LET keep == {k \in 1..Len(rows) : \A j \in 1..(k - 1) : rows[j] # rows[k]}
    IN  [n \in 1..Cardinality(keep) |->
            rows[CHOOSE k \in keep : Cardinality({j \in keep : j <= k}) = n]]

is_unique_unchecked(rows) == TRUE

\* Index.is_unique of the column `id`
is_unique(rows) ==
    \A j, k \in 1..Len(rows) : rows[j].id = rows[k].id => j = k

\* Series.replace(r'\n', '', regex=True)
StripNewlines(description) == SelectSeq(description, LAMBDA c : c # "\n")

create_category_playlists_records(simplified_playlists_df) ==
    [k \in 1..Len(simplified_playlists_df) |->
        [id |-> simplified_playlists_df[k].id,
         description |-> StripNewlines(simplified_playlists_df[k].description),
         name |-> simplified_playlists_df[k].name,
         snapshot_id |-> simplified_playlists_df[k].snapshot_id,
         tracks_url |-> simplified_playlists_df[k].tracks.href,
         total_tracks |-> simplified_playlists_df[k].tracks.total]]

create_playlist_records(playlists_df) ==
    [k \in 1..Len(playlists_df) |->
        [id |-> playlists_df[k].id, followers |-> playlists_df[k].followers.total]]

\* the rows before the assertion of create_tracks_records
tracks_records_unique_indexed(items) ==
    drop_duplicates(
        [k \in 1..Len(items) |->
            [album_type |-> items[k].track_album_album_type,
             id |-> items[k].track_id,
             name |-> items[k].track_name,
             popularity |-> items[k].track_popularity,
             uri |-> items[k].track_uri]])

create_playlist_track_id_records_deduplicated(items) ==
    drop_duplicates(
        [k \in 1..Len(items) |->
            [playlist_id |-> items[k].playlist_id,
             playlist_added_at |-> items[k].added_at,
             track_id |-> items[k].track_id]])

create_playlist_track_id_records(items) ==
    [k \in 1..Len(items) |->
        [playlist_id |-> items[k].playlist_id,
         playlist_added_at |-> items[k].added_at,
         track_id |-> items[k].track_id]]

create_track_artist_id_records(artists) ==
    [k \in 1..Len(artists) |->
        [artist_id |-> artists[k].id, track_id |-> artists[k].track_id]]

create_artists_records_by_id(artists) ==
    drop_duplicates_by_id([k \in 1..Len(artists) |->
                              [id |-> artists[k].id, name |-> artists[k].name]])

create_artists_records(artists) ==
    drop_duplicates([k \in 1..Len(artists) |->
                        [id |-> artists[k].id, name |-> artists[k].name]])

(***************************************************************************)
(* main.py                                                                 *)
(***************************************************************************)
\* table_func_mappings, in the order the dict is iterated
TableNames ==
    <<"category_playlist_records", "playlist_records", "tracks_records",
      "playlist_track_id_records", "track_artist_id_records", "artists_records">>

\* self.items_normalized and self.artists_normalized: None, or the frame
NotComputed == [cached |-> FALSE, rows |-> <<>>]
Cached(rows) == [cached |-> TRUE, rows |-> rows]

\* the cached views as they are after the table `name` has asked for them
ItemsAfter(name) ==
    IF name \in {"tracks_records", "playlist_track_id_records",
                 "track_artist_id_records", "artists_records"}
       /\ ~items_normalized.cached
    THEN Cached(get_items_normalized(playlists))
    ELSE items_normalized

ArtistsAfter(name) ==
    IF name \in {"track_artist_id_records", "artists_records"}
       /\ ~artists_normalized.cached
    THEN Cached(get_artists_normalized(ItemsAfter(name).rows))
    ELSE artists_normalized

\* func() of the table `name`
TableRows(name) ==
    CASE name = "category_playlist_records" ->
            create_category_playlists_records(simplified_playlists)
      [] name = "playlist_records" -> create_playlist_records(playlists)
      [] name = "tracks_records" -> tracks_records_unique_indexed(ItemsAfter(name).rows)
      [] name = "playlist_track_id_records" ->
            create_playlist_track_id_records(ItemsAfter(name).rows)
      [] name = "track_artist_id_records" ->
            create_track_artist_id_records(ArtistsAfter(name).rows)
      [] name = "artists_records" -> create_artists_records(ArtistsAfter(name).rows)

\* the assert of create_tracks_records; the other builders assert nothing
AssertionHolds(name, rows) == name = "tracks_records" => is_unique(rows)

TransformReturnsEarly(tables) == Len(tables) >= 1

\* the loop of transform has run through table_func_mappings
TransformReturns(tables) == Len(tables) = Len(TableNames)

\* transform up to the loop: the two DataFrames and set_index('id')
transform_begin ==
    /\ pc = "transform"
    /\ IF simplified_playlists = <<>> \/ playlists = <<>>
       THEN pc' = "failed"      \* no column `id` in an empty frame: KeyError
       ELSE pc' = "tables"
    /\ UNCHANGED <<limit, offset, requests, responses, simplified_playlists,
                   playlist_responses, playlists, i, tracks_next, track_pages, errlog,
                   items_normalized, artists_normalized, table_dfs, stored, limiter>>

\* one iteration of the loop of transform: table_dfs[table_name] = func()
create_table ==
    /\ pc = "tables"
    /\ LET name == TableNames[Len(table_dfs) + 1]
           rows == TableRows(name)
       IN  /\ items_normalized' = ItemsAfter(name)
           /\ artists_normalized' = ArtistsAfter(name)
           /\ IF ~AssertionHolds(name, rows)
              THEN \* AssertionError leaves transform: table_dfs is lost
                   /\ pc' = "failed"
                   /\ UNCHANGED table_dfs
              ELSE /\ table_dfs' = Append(table_dfs, [name |-> name, rows |-> rows])
                   /\ pc' = IF TransformReturns(table_dfs') THEN "load" ELSE "tables"
    /\ UNCHANGED <<limit, offset, requests, responses, simplified_playlists,
                   playlist_responses, playlists, i, tracks_next, track_pages, errlog,
                   stored, limiter>>

\* one iteration of the loop of load: df.to_csv, which writes or raises
store_table ==
    /\ pc = "load"
    /\ \E written \in BOOLEAN :
        IF written
        THEN /\ stored' = Append(stored, table_dfs[Len(stored) + 1].name)
             /\ pc' = IF Len(stored') = Len(table_dfs) THEN "done" ELSE "load"
        ELSE /\ pc' = "failed"
             /\ UNCHANGED stored
    /\ UNCHANGED <<limit, offset, requests, responses, simplified_playlists,
                   playlist_responses, playlists, i, tracks_next, track_pages, errlog,
                   items_normalized, artists_normalized, table_dfs, limiter>>

(***************************************************************************)
(* Specifications.  Spec is a whole run of main on a small server.  The    *)
(* others start one phase of the run from every input within the bounds,   *)
(* with the history of the earlier phases left empty.  In these the calls  *)
(* of the client are single steps: a call that the limiter holds back is   *)
(* retried until it goes through (SpecGateway), which only takes time.     *)
(***************************************************************************)
\* the state when main calls extract, but for pc and the collections given
InitAt(position, listing, detailed, bodies) ==
    /\ pc = position
    /\ limit = PyInt(50)
    /\ offset = PyInt(0)
    /\ requests = <<>>
    /\ responses = <<>>
    /\ simplified_playlists = listing
    /\ playlist_responses = detailed
    /\ playlists = bodies
    /\ i = 1
    /\ tracks_next = Null
    /\ track_pages = <<>>
    /\ errlog = <<>>
    /\ items_normalized = NotComputed
    /\ artists_normalized = NotComputed
    /\ table_dfs = <<>>
    /\ stored = <<>>

\* ---- the category listing traversal, against any server
InitListing == InitAt("listing", <<>>, <<>>, <<>>) /\ limiter = NotCalled("none")

NextListing ==
    get_category_page(ListingResponses(Len(responses) + 1 >= MaxListPages))

SpecListing == InitListing /\ [][NextListing]_vars

\* ---- the detail fetch, from any listing
DetailListings ==
    SeqsUpTo({SimplifiedPlaylist(id) : id \in PlaylistIds}, MaxPlaylists)

InitDetail ==
    /\ \E listing \in DetailListings : InitAt("detail", listing, <<>>, <<>>)
    /\ limiter = NotCalled("none")

NextDetail ==
    \/ get_playlist_step([id \in PlaylistIds |-> PlaylistResponses(id)])
    \/ get_all_playlists_return

SpecDetail == InitDetail /\ [][NextDetail]_vars

\* ---- the track backfill, from any result of the detail fetch
BackfillIds == {<<"A">>, <<"A", "B">>}

AllPlaylistResponses == UNION {PlaylistResponses(id) : id \in PlaylistIds}

DetailResults(ids) ==
    {d \in [1..Len(ids) -> AllPlaylistResponses] :
        \A k \in 1..Len(ids) : d[k] \in PlaylistResponses(ids[k])}

BodiesOf(detailed) == [k \in 1..Len(detailed) |-> detailed[k].body]

InitBackfill ==
    \E ids \in BackfillIds : \E detailed \in DetailResults(ids) :
        /\ InitAt("populate", [k \in 1..Len(ids) |-> SimplifiedPlaylist(ids[k])],
                  detailed, BodiesOf(detailed))
        /\ limiter = NotCalled("none")

\* track pages already fetched for the playlist being backfilled
PagesFetched == Cardinality({k \in 1..Len(track_pages) : track_pages[k].index = i})

NextBackfill ==
    \/ populate_playlist
    \/ populate_page(TrackPageResponses(PagesFetched + 1 >= MaxTrackPages))
    \/ populate_return

SpecBackfill == InitBackfill /\ [][NextBackfill]_vars

\* ---- transform and load, from any extracted input
O1later == Occurrence("d9", "T1", "n1", 10, "u1", "album", <<ArtistRef("AR1", "X")>>)
O1type == Occurrence("d1", "T1", "n1", 10, "u1", "single", <<ArtistRef("AR1", "X")>>)
O1name == Occurrence("d1", "T1", "n9", 10, "u1", "album", <<ArtistRef("AR1", "X")>>)
O1popularity ==
    Occurrence("d1", "T1", "n1", 99, "u1", "album", <<ArtistRef("AR1", "X")>>)
O1uri == Occurrence("d1", "T1", "n1", 10, "u9", "album", <<ArtistRef("AR1", "X")>>)
O3 == Occurrence("d3", "T3", "n3", 30, "u3", "album", <<ArtistRef("AR1", "Z")>>)

TransformOccurrences == {O1, O1later, O1type, O1name, O1popularity, O1uri, O2, O3}

\* the item lists of n occurrences, and of 1..n occurrences
ItemListsOf(n) == {its \in SeqsUpTo(TransformOccurrences, n) : Len(its) = n}
ItemListsUpTo(n) == SeqsUpTo(TransformOccurrences, n) \ {<<>>}

\* one playlist, or two, with no more than MaxOccurrences items in all
TransformInputs ==
    {<<Playlist("A", 7, a, Null)>> : a \in ItemListsUpTo(MaxOccurrences)}
    \cup UNION {{<<Playlist("A", 7, a, Null), Playlist("B", 7, b, Null)>> :
                    a \in ItemListsOf(n), b \in ItemListsUpTo(MaxOccurrences - n)} :
                n \in 1..(MaxOccurrences - 1)}

InitTransform ==
    \E pls \in TransformInputs :
        /\ InitAt("transform", [k \in 1..Len(pls) |-> SimplifiedPlaylist(pls[k].id)],
                  [k \in 1..Len(pls) |-> Response(200, pls[k])], pls)
        /\ limiter = NotCalled("none")

NextTransform ==
    \/ transform_begin
    \/ create_table
    \/ store_table

SpecTransform == InitTransform /\ [][NextTransform]_vars

\* ---- the calls of one client method through its decorators
InitGateway ==
    /\ InitAt("listing", <<>>, <<>>, <<>>)
    /\ limiter \in {NotCalled(op) : op \in ClientMethods}

NextGateway ==
    \/ gateway_call
    \/ gateway_retry
    \/ clock_tick

SpecGateway == InitGateway /\ [][NextGateway]_vars

\* ---- a whole run of main
RunListingResponses(last) ==
    { ListingOk(its, nx) :
        its \in {<<>>, <<SimplifiedPlaylist("A")>>,
                 <<SimplifiedPlaylist("A"), SimplifiedPlaylist("B")>>},
        nx \in IF last THEN {Null} ELSE {Null} \cup NextUrls }
    \cup {ErrorResponse(st) : st \in ErrorStatuses}

RunPlaylistResponses(id) ==
    { Response(200, Playlist(id, 7, <<O1>>, nx)) : nx \in {Null} \cup TrackUrls }
    \cup {ErrorResponse(st) : st \in ErrorStatuses}

RunTrackPageResponses ==
    { Response(200, [items |-> its, next |-> Null]) : its \in {<<O2>>, <<O1name>>} }
    \cup {ErrorResponse(st) : st \in ErrorStatuses}

Init == InitAt("listing", <<>>, <<>>, <<>>) /\ limiter = NotCalled("none")

Next ==
    \/ get_category_page(RunListingResponses(Len(responses) + 1 >= MaxRunPages))
    \/ get_playlist_step([id \in PlaylistIds |-> RunPlaylistResponses(id)])
    \/ get_all_playlists_return
    \/ populate_playlist
    \/ populate_page(RunTrackPageResponses)
    \/ populate_return
    \/ transform_begin
    \/ create_table
    \/ store_table

Spec == Init /\ [][Next]_vars

(***************************************************************************)
(* Properties.                                                             *)
(***************************************************************************)
HasPair(url, key, value) ==
    \E k \in 1..Len(url.query) : url.query[k] = <<key, value>>

ListingContinues(response) ==
    /\ response.status = 200
    /\ ~IsNull(response.body.playlists.next)

\* C1: the category listing issues one request per page and stops at the
\* first page whose next is null: the responses kept are the pages served, in
\* order; the first request carries limit=50 and offset=0 and every later
\* request carries the limit and the offset of the previous page's next URL.
C1_ListingPagination ==
    /\ Len(requests) = Len(responses)
    /\ \A n \in 1..(Len(responses) - 1) : ListingContinues(responses[n])
    /\ pc = "listing" /\ responses # <<>> =>
           ListingContinues(responses[Len(responses)])
    /\ pc = "detail" =>
           /\ responses # <<>>
           /\ responses[Len(responses)].status = 200
           /\ IsNull(responses[Len(responses)].body.playlists.next)
    /\ \A n \in 1..Len(requests) :
        /\ requests[n].op = "get_category_playlists"
        /\ requests[n].id = CategoryId
        /\ n = 1 => requests[n].limit = "50" /\ requests[n].offset = "0"
        /\ n > 1 =>
            /\ HasPair(responses[n - 1].body.playlists.next, "limit",
                       requests[n].limit)
            /\ HasPair(responses[n - 1].body.playlists.next, "offset",
                       requests[n].offset)

C1_Witness ==
    /\ pc = "detail"
    /\ Len(responses) = 3
    /\ requests[2].offset = "50"
    /\ requests[3].limit = "20"
    /\ requests[3].offset = "70"

\* the items of the track pages received for the playlist at index k, in order
RECURSIVE PageItemsFor(_, _)
PageItemsFor(pages, k) ==
    IF pages = <<>> THEN <<>>
    ELSE (IF Head(pages).index = k /\ "items" \in DOMAIN Head(pages).response.body
          THEN Head(pages).response.body.items ELSE <<>>)
         \o PageItemsFor(Tail(pages), k)

PagesFor(k) == SelectSeq(track_pages, LAMBDA page : page.index = k)

InitialItems(k) == playlist_responses[k].body.tracks.items

\* C2: the items of a playlist are at all times the items of its detail fetch
\* followed by the items of the track pages fetched for it, page by page; so
\* after the backfill of pages of q and r items a playlist of p items has
\* p + q + r items.
C2_BackfillComplete ==
    \A k \in 1..Len(playlists) :
        "tracks" \in DOMAIN playlists[k] =>
            /\ playlists[k].tracks.items
                   = InitialItems(k) \o PageItemsFor(track_pages, k)
            /\ Len(playlists[k].tracks.items)
                   = Len(InitialItems(k)) + Len(PageItemsFor(track_pages, k))
            /\ SubSeq(playlists[k].tracks.items, 1, Len(InitialItems(k)))
                   = InitialItems(k)

C2_Witness ==
    /\ pc = "transform"
    /\ \E k \in 1..Len(playlists) :
        /\ Len(PagesFor(k)) = 2
        /\ Len(InitialItems(k)) = 1
        /\ Len(PagesFor(k)[1].response.body.items) = 2
        /\ Len(PagesFor(k)[2].response.body.items) = 1
        /\ Len(playlists[k].tracks.items) = 4

\* C3 as claimed: once the backfill has returned, tracks.next of every
\* playlist is null.
C3_NextIsNullAfterBackfill ==
    pc = "transform" => \A k \in 1..Len(playlists) : IsNull(playlists[k].tracks.next)

\* C3: the backfill follows the cursor to its end but never writes it back:
\* once it has returned, the last track page fetched for each playlist had a
\* null next and the local cursor is null, while tracks.next of every playlist
\* is still what the detail fetch returned.
C3_CursorExhaustedNextUntouched ==
    /\ \A k \in 1..Len(playlists) :
         "tracks" \in DOMAIN playlists[k] =>
             playlists[k].tracks.next = playlist_responses[k].body.tracks.next
    /\ pc = "transform" =>
         \A k \in 1..Len(playlists) :
             IF IsNull(playlist_responses[k].body.tracks.next)
             THEN PagesFor(k) = <<>>
             ELSE /\ PagesFor(k) # <<>>
                  /\ IsNull(PagesFor(k)[Len(PagesFor(k))].response.body.next)
                  /\ IsNull(tracks_next)

C3_Witness ==
    /\ pc = "transform"
    /\ \E k \in 1..Len(playlists) :
        /\ ~IsNull(playlists[k].tracks.next)
        /\ Len(PagesFor(k)) = 2

\* the rows of the table `name` that transform has built
Table(name) ==
    table_dfs[CHOOSE k \in 1..Len(table_dfs) : table_dfs[k].name = name].rows

TransformCompleted == Len(table_dfs) = Len(TableNames)

\* how many rows of tracks_records have the id t
TrackRows(t) ==
    Cardinality({k \in 1..Len(Table("tracks_records")) :
                    Table("tracks_records")[k].id = t})

\* C4: when transform completes, every track_id of playlist_track_id_records
\* is the id of exactly one row of tracks_records, and every artist_id of
\* track_artist_id_records is the id of a row of artists_records.
C4_ReferentialConsistency ==
    TransformCompleted =>
        /\ \A k \in 1..Len(Table("playlist_track_id_records")) :
             TrackRows(Table("playlist_track_id_records")[k].track_id) = 1
        /\ \A k \in 1..Len(Table("track_artist_id_records")) :
             \E j \in 1..Len(Table("artists_records")) :
                 Table("artists_records")[j].id
                     = Table("track_artist_id_records")[k].artist_id

C4_Witness ==
    /\ TransformCompleted
    /\ Len(Table("playlist_track_id_records")) = 3
    /\ Len(Table("tracks_records")) = 2
    /\ Len(Table("track_artist_id_records")) = 4
    /\ Len(Table("artists_records")) = 2

\* the occurrences of the extracted playlists, as <<playlist index, position>>
Occurrences ==
    UNION {{<<k, n>> : n \in 1..Len(playlists[k].tracks.items)} :
           k \in 1..Len(playlists)}

TrackAt(o) == playlists[o[1]].tracks.items[o[2]].track

\* the artists of the occurrences, as <<occurrence, position>>
ArtistOccurrences ==
    UNION {{<<o, a>> : a \in 1..Len(TrackAt(o).artists)} : o \in Occurrences}

ArtistAt(p) == TrackAt(p[1]).artists[p[2]]

SameTrack(t, u) ==
    /\ t.id = u.id
    /\ t.album.album_type = u.album.album_type
    /\ t.name = u.name
    /\ t.popularity = u.popularity
    /\ t.uri = u.uri

\* C5: when transform completes, a track that occurs several times has one
\* row in tracks_records, while playlist_track_id_records keeps one row for
\* each occurrence and track_artist_id_records one row for each artist of
\* each occurrence.
C5_DedupOnlyTracks ==
    TransformCompleted =>
        /\ \A o \in Occurrences : TrackRows(TrackAt(o).id) = 1
        /\ Len(Table("playlist_track_id_records")) = Cardinality(Occurrences)
        /\ \A o \in Occurrences :
             Cardinality({k \in 1..Len(Table("playlist_track_id_records")) :
                 /\ Table("playlist_track_id_records")[k].track_id = TrackAt(o).id
                 /\ Table("playlist_track_id_records")[k].playlist_id
                        = playlists[o[1]].id})
               = Cardinality({q \in Occurrences :
                                 q[1] = o[1] /\ TrackAt(q).id = TrackAt(o).id})
        /\ Len(Table("track_artist_id_records")) = Cardinality(ArtistOccurrences)
        /\ \A p \in ArtistOccurrences :
             Cardinality({k \in 1..Len(Table("track_artist_id_records")) :
                 /\ Table("track_artist_id_records")[k].track_id = TrackAt(p[1]).id
                 /\ Table("track_artist_id_records")[k].artist_id = ArtistAt(p).id})
               = Cardinality({q \in ArtistOccurrences :
                                 /\ TrackAt(q[1]).id = TrackAt(p[1]).id
                                 /\ ArtistAt(q).id = ArtistAt(p).id})

C5_Witness ==
    /\ TransformCompleted
    /\ Len(playlists) = 2
    /\ \E o, q \in Occurrences :
         o[1] = 1 /\ q[1] = 2 /\ SameTrack(TrackAt(o), TrackAt(q))
    /\ \E o, q \in Occurrences :
         o[1] = q[1] /\ o[2] # q[2]
         /\ playlists[o[1]].tracks.items[o[2]] = playlists[q[1]].tracks.items[q[2]]
    /\ Len(Table("tracks_records")) = 1
    /\ Len(Table("playlist_track_id_records")) = 3

\* two occurrences share a track id and differ in another column of the key
Conflict ==
    \E o, q \in Occurrences :
        TrackAt(o).id = TrackAt(q).id /\ ~SameTrack(TrackAt(o), TrackAt(q))

\* C6: when two occurrences share a track id and differ in album_type, name,
\* popularity or uri, the assertion of create_tracks_records stops transform:
\* once create_tracks_records has run the run has failed, transform never
\* returns, no tracks_records table is built and nothing is stored.
C6_ConflictIsFatal ==
    Conflict =>
        /\ pc \in {"transform", "tables", "failed"}
        /\ Len(table_dfs) <= 2
        /\ items_normalized.cached => pc = "failed"
        /\ \A k \in 1..Len(table_dfs) : table_dfs[k].name # "tracks_records"
        /\ stored = <<>>

C6_Witness ==
    /\ Conflict
    /\ pc = "failed"
    /\ Len(table_dfs) = 2
    /\ items_normalized.cached

\* C7: a table is written only once transform has returned all six tables,
\* a finished run has written each table once, in order, and a run that
\* failed before the six tables were built has written nothing.
C7_AllOrNothing ==
    /\ stored # <<>> => TransformCompleted
    /\ pc \in {"load", "done"} => TransformCompleted
    /\ Len(stored) <= Len(TableNames)
    /\ \A k \in 1..Len(stored) : stored[k] = TableNames[k]
    /\ pc = "done" => stored = TableNames
    /\ pc = "failed" /\ ~TransformCompleted => stored = <<>>

C7_Witness ==
    /\ pc = "done"
    /\ stored = TableNames
    /\ Len(playlists) = 2
    /\ track_pages # <<>>

\* C8: the detail fetch issues one get_playlist request for each simplified
\* playlist, in listing order, and keeps every response at the position of
\* its playlist whatever its status; it never fails, and what it returns has
\* the length and the order of the listing.
C8_DetailFetch ==
    /\ pc \in {"detail", "populate"}
    /\ Len(requests) = Len(playlist_responses)
    /\ pc = "detail" => Len(requests) = i - 1
    /\ \A n \in 1..Len(requests) :
        /\ requests[n]
               = Request("get_playlist", simplified_playlists[n].id, Absent, Absent)
        /\ playlist_responses[n].status = 200 =>
               playlist_responses[n].body.id = simplified_playlists[n].id
    /\ pc = "populate" =>
        /\ Len(playlist_responses) = Len(simplified_playlists)
        /\ playlists = BodiesOf(playlist_responses)

C8_Witness ==
    /\ pc = "populate"
    /\ Len(playlists) = 2
    /\ playlist_responses[1].status # 200
    /\ playlist_responses[2].status = 200
    /\ simplified_playlists[1].id # simplified_playlists[2].id

\* the responses of non-success status that the run has received
ErrorsReceived ==
    Cardinality({k \in 1..Len(responses) : responses[k].status # 200})
    + Cardinality({k \in 1..Len(playlist_responses) :
                      playlist_responses[k].status # 200})
    + Cardinality({k \in 1..Len(track_pages) : track_pages[k].response.status # 200})

\* C9 as claimed: every response of non-success status, of any of the three
\* operations, is logged as an error (and handed to the caller as it is).
C9_NonSuccessIsLogged == Len(errlog) = ErrorsReceived

\* C10 as claimed: the retries of a call have a ceiling, after which the
\* failure is surfaced: a call that is about to retry has made fewer than
\* MaxRetries attempts.
C10_RetriesHaveCeiling ==
    limiter.phase = "backoff" => limiter.tries < MaxRetries

\* C10: a call that exceeds 100 attempts in the 30 s window of its method is
\* retried after a wait of at most 2^(n-1) seconds after its n-th attempt;
\* there is no ceiling on the retries and RateLimitException never reaches
\* the caller: the call returns, from the attempt that the limiter lets
\* through, which is never one over the cap.
C10_RetriesWithoutCeiling ==
    /\ limiter.phase # "raised"
    /\ limiter.phase = "backoff" =>
        /\ limiter.num_calls > calls
        /\ limiter.elapsed < period
        /\ limiter.tries >= 1
        /\ limiter.wait <= 2 ^ (limiter.tries - 1)
        /\ limiter.returned = <<>>
    /\ limiter.phase = "idle" /\ limiter.tries >= 1 =>
        /\ limiter.num_calls <= calls
        /\ Len(limiter.returned) = 1

C10_Witness ==
    /\ limiter.phase = "idle"
    /\ limiter.tries = 4
    /\ limiter.num_calls = 1
    /\ Len(limiter.returned) = 1

\* how many rows of artists_records are the pair (id, name)
ArtistRows(id, name) ==
    Cardinality({k \in 1..Len(Table("artists_records")) :
                    /\ Table("artists_records")[k].id = id
                    /\ Table("artists_records")[k].name = name})

\* the (id, name) pairs of the artists of the occurrences
ArtistPairs == {<<ArtistAt(p).id, ArtistAt(p).name>> : p \in ArtistOccurrences}

\* C11: when transform completes, artists_records holds each (id, name) pair
\* of the artists of the occurrences exactly once and nothing else, in the
\* order of first appearance: an id that occurs with two names has two rows, a
\* pair that occurs many times has one.
C11_ArtistsDedupByRow ==
    TransformCompleted =>
        /\ \A p \in ArtistOccurrences :
             ArtistRows(ArtistAt(p).id, ArtistAt(p).name) = 1
        /\ \A k \in 1..Len(Table("artists_records")) :
             <<Table("artists_records")[k].id, Table("artists_records")[k].name>>
                 \in ArtistPairs
        /\ Len(Table("artists_records")) = Cardinality(ArtistPairs)
        /\ \A j, k \in 1..Len(Table("artists_records")) :
             j < k =>
                \E p \in ArtistOccurrences :
                    /\ ArtistAt(p) = Table("artists_records")[j]
                    /\ \A q \in ArtistOccurrences :
                         ArtistAt(q) = Table("artists_records")[k] =>
                             \/ p[1][1] < q[1][1]
                             \/ p[1][1] = q[1][1] /\ p[1][2] < q[1][2]
                             \/ p[1] = q[1] /\ p[2] < q[2]

C11_Witness ==
    /\ TransformCompleted
    /\ ArtistRows("AR1", "X") = 1
    /\ ArtistRows("AR1", "Z") = 1
    /\ Cardinality({p \in ArtistOccurrences :
                       ArtistAt(p) = ArtistRef("AR1", "X")}) >= 2

\* the playlist came back from its detail fetch with a null tracks.next
NullNextOnEntry(k) ==
    /\ "tracks" \in DOMAIN playlist_responses[k].body
    /\ IsNull(playlist_responses[k].body.tracks.next)

\* C12: during the backfill the list keeps its length and order; a playlist
\* whose tracks.next was null on entry gets no track-page request and stays
\* as it was; every track-page request carries the id of the playlist being
\* backfilled, and its items go to that playlist only: a playlist changes in
\* nothing but tracks.items, and not even there while no page was fetched
\* for it.
C12_BackfillFrame ==
    /\ Len(playlists) = Len(playlist_responses)
    /\ \A k \in 1..Len(playlists) :
         IF "tracks" \in DOMAIN playlists[k]
         THEN /\ "tracks" \in DOMAIN playlist_responses[k].body
              /\ [playlists[k] EXCEPT !.tracks.items = InitialItems(k)]
                     = playlist_responses[k].body
              /\ PageItemsFor(track_pages, k) = <<>> =>
                     playlists[k] = playlist_responses[k].body
         ELSE playlists[k] = playlist_responses[k].body
    /\ Len(requests) = Len(track_pages)
    /\ \A n \in 1..Len(requests) :
         /\ requests[n].op = "get_playlist_items"
         /\ track_pages[n].index \in 1..Len(playlists)
         /\ requests[n].id = playlist_responses[track_pages[n].index].body.id
         /\ ~NullNextOnEntry(track_pages[n].index)
    /\ \A k \in 1..Len(playlists) :
         NullNextOnEntry(k) =>
            /\ PagesFor(k) = <<>>
            /\ playlists[k] = playlist_responses[k].body
            /\ \A n \in 1..Len(requests) : requests[n].id # playlists[k].id

C12_Witness ==
    /\ pc = "transform"
    /\ Len(playlists) = 2
    /\ NullNextOnEntry(1)
    /\ playlists[1] = playlist_responses[1].body
    /\ Len(playlists[1].tracks.items) = 1
    /\ Len(PagesFor(2)) = 2
    /\ Len(playlists[2].tracks.items) > Len(InitialItems(2))
    /\ \A n \in 1..Len(requests) : requests[n].id = "B"

=============================================================================
